---- MODULE Spec2Model ----
(***************************************************************************)
(* tinyproxy reverse proxy support: the reverse path list                  *)
(* (reversepath_add, reversepath_get) and the request URL rewrite          *)
(* (reverse_rewrite_url) of src/src/reverse-proxy.c, under Spec; the       *)
(* socket functions of src/src/sock.c, under SockSpec; and reversepath_add *)
(* statement by statement beside a reader of the list, under CtorSpec.     *)
(*                                                                         *)
(* C strings are sequences of one-character strings.  A char pointer that  *)
(* may be NULL is either such a sequence or the value NULL below, whose    *)
(* single element is no character of any string of the model.  A pointer   *)
(* to a struct reversepath is the position of the rule in the list,        *)
(* counted from the head; NoRule is the NULL pointer and Uninit the value  *)
(* of a local variable that was never assigned.                            *)
(***************************************************************************)
EXTENDS Integers, Sequences, FiniteSets, TLC

VARIABLES
    reversepath_list,   \* config.reversepath_list, head first
    reverseonly,        \* config.reverseonly
    reversemagic,       \* config.reversemagic
    last,               \* what the last call was given, did and returned
    sock,               \* sock.c: the call in progress, its descriptors
    ctor                \* reversepath_add and reversepath_get step by step

vars == <<reversepath_list, reverseonly, reversemagic, last, sock, ctor>>

(* Bound of the model: the number of rules the configuration may store. *)
MaxRules == 2

NULL == <<"NULL">>
NoRule == 0
Uninit == -1

(* ---------------------------------------------------------------------- *)
(* Inputs                                                                  *)
(* ---------------------------------------------------------------------- *)

(* path arguments of reversepath_add: absent, empty, valid, not starting
   with a slash *)
PathArgs ==
    { NULL, << >>, <<"/", "a">>, <<"a">> }

(* url arguments of reversepath_add: absent, empty, valid, without "://" *)
UrlArgs ==
    { NULL, << >>,
      <<"h", ":", "/", "/", "x">>,
      <<":", "/", "/", "y", "/">>,
      <<"h", ":", "/">> }

(* request targets: absolute paths and absolute URIs *)
RequestUrls ==
    { <<"/">>, <<"/", "a">>, <<"/", "a", "/", "b">>, <<"/", "b", "/", "a">>,
      <<"h", ":", "/", "/", "x">>, <<"x", "/", "a">> }

(* REVERSE_COOKIE, the name of the tracking cookie *)
REVERSE_COOKIE == <<"t">>

(* cookie header values: the marker first, the marker inside another
   cookie's name, no marker, a marker followed by no rule's path, a marker
   followed by nothing *)
CookieValues ==
    { <<"t", "=", "/", "a">>,
      <<"x", "t", "=", "/", "a", ";">>,
      <<"s", "=", "/", "a">>,
      <<"t", "=", "z">> }

(* the header maps: every request has a host header, some have a cookie *)
HeaderMaps ==
    { [host |-> <<"h">>] } \cup
    { [host |-> <<"h">>, cookie |-> c] : c \in CookieValues }

(* the connections handed to reverse_rewrite_url: a struct conn_s as the
   request handler initialises it, with no reverse path yet *)
ConnArgs == { [reversepath |-> NULL] }

(* arguments of reversepath_get: request targets and what may follow the
   marker in a cookie *)
GetArgs == RequestUrls \cup { <<"z">>, <<"/", "a", ";">> }

(* what a read through a wild pointer may yield *)
Garbage == <<"?">>

(* ---------------------------------------------------------------------- *)
(* String functions                                                        *)
(* ---------------------------------------------------------------------- *)

(* needle occurs in haystack at position i (1 is the first character) *)
OccursAt(haystack, needle, i) ==
    /\ i + Len(needle) - 1 <= Len(haystack)
    /\ \A k \in 1..Len(needle) : haystack[i + k - 1] = needle[k]

RECURSIVE FirstOccurrence(_, _, _)
FirstOccurrence(haystack, needle, i) ==
    IF i + Len(needle) - 1 > Len(haystack) THEN 0
    ELSE IF OccursAt(haystack, needle, i) THEN i
    ELSE FirstOccurrence(haystack, needle, i + 1)

(* strstr: the position of the first occurrence of needle in haystack,
   1 for the haystack pointer itself, 0 for NULL *)
strstr(haystack, needle) == FirstOccurrence(haystack, needle, 1)

(* the string at pointer s + n *)
StrFrom(s, n) == SubSeq(s, n + 1, Len(s))

(* ---------------------------------------------------------------------- *)
(* reversepath_get                                                         *)
(* ---------------------------------------------------------------------- *)

PathMatchesAnywhere(url, path) == strstr(url, path) # 0

PathMatchesSwapped(url, path) == strstr(path, url) = 1

(* the test of the scan: strstr (url, reverse->path) == url *)
PathMatches(url, path) == strstr(url, path) = 1

RECURSIVE reversepath_scan(_, _, _)
reversepath_scan(list, url, reverse) ==
    IF reverse > Len(list) THEN NoRule
    ELSE IF PathMatches(url, list[reverse].path) THEN reverse
    ELSE reversepath_scan(list, url, reverse + 1)

reversepath_get(list, url) == reversepath_scan(list, url, 1)

(* reverse->path and reverse->url, NULL standing for "no rule" *)
RulePath(list, reverse) ==
    IF reverse \in 1..Len(list) THEN list[reverse].path ELSE NULL

RuleUrl(list, reverse) ==
    IF reverse \in 1..Len(list) THEN list[reverse].url ELSE NULL

(* ---------------------------------------------------------------------- *)
(* reversepath_add                                                         *)
(* ---------------------------------------------------------------------- *)

(* the checks of reversepath_add, in order; "ok" when all pass *)
AddVerdictNoPathCheck(path, url, alloc_ok) ==
    IF url = NULL THEN "missing url"
    ELSE IF strstr(url, <<":", "/", "/">>) = 0 THEN "not a valid url"
    ELSE IF ~alloc_ok THEN "no memory"
    ELSE "ok"

AddVerdict(path, url, alloc_ok) ==
    IF url = NULL THEN "missing url"
    ELSE IF strstr(url, <<":", "/", "/">>) = 0 THEN "not a valid url"
    ELSE IF path # NULL /\ (Len(path) = 0 \/ path[1] # "/") THEN "bad path"
    ELSE IF ~alloc_ok THEN "no memory"
    ELSE "ok"

(* what safemalloc may return: it is called only once the arguments have
   passed the checks *)
AllocResults(path, url) ==
    IF AddVerdict(path, url, TRUE) = "ok" THEN BOOLEAN ELSE {TRUE}

AddLogLevel(verdict) ==
    CASE verdict \in {"missing url", "not a valid url", "bad path"} -> "LOG_WARNING"
      [] verdict = "no memory" -> "LOG_ERR"
      [] OTHER -> "LOG_INFO"

NewRuleEmptyDefault(path, url, birth) ==
    [ path  |-> IF path = NULL THEN << >> ELSE path,
      url   |-> url,
      birth |-> birth ]

(* the rule reversepath_add builds; birth numbers the stored rules in the
   order they were added and stands for the identity of the allocation *)
NewRule(path, url, birth) ==
    [ path  |-> IF path = NULL THEN <<"/">> ELSE path,
      url   |-> url,
      birth |-> birth ]

LinkAtTail(list, reverse) == Append(list, reverse)

LinkDroppingList(list, reverse) == <<reverse>>

(* reverse->next = config.reversepath_list; config.reversepath_list = reverse *)
LinkAtHead(list, reverse) == <<reverse>> \o list

NoCall ==
    [ op |-> "none", path |-> NULL, url |-> NULL, hdr |-> [host |-> <<"h">>],
      ret |-> NULL, rule |-> NoRule, rule_path |-> NULL, via |-> "none",
      errors |-> << >>, logs |-> << >>, gets |-> << >>, lookups |-> 0,
      crashed |-> FALSE, pre_list |-> << >>,
      pre_conn |-> [reversepath |-> NULL], conn |-> [reversepath |-> NULL] ]

AddRule ==
    /\ Len(reversepath_list) < MaxRules
    /\ \E path \in PathArgs, url \in UrlArgs :
       \E alloc_ok \in AllocResults(path, url) :
        LET verdict == AddVerdict(path, url, alloc_ok)
            reverse == NewRule(path, url, Len(reversepath_list) + 1)
        IN  /\ reversepath_list' =
                  IF verdict = "ok"
                  THEN LinkAtHead(reversepath_list, reverse)
                  ELSE reversepath_list
            /\ last' = [ NoCall EXCEPT
                           !.op = "add", !.path = path, !.url = url,
                           !.via = verdict,
                           !.logs = <<AddLogLevel(verdict)>>,
                           !.pre_list = reversepath_list ]
    /\ UNCHANGED <<reverseonly, reversemagic, sock, ctor>>

FindRule ==
    /\ \E url \in GetArgs :
        LET reverse == reversepath_get(reversepath_list, url)
        IN  last' = [ NoCall EXCEPT
                        !.op = "get", !.url = url, !.rule = reverse,
                        !.rule_path = RulePath(reversepath_list, reverse),
                        !.ret = RuleUrl(reversepath_list, reverse),
                        !.gets = <<url>>,
                        !.pre_list = reversepath_list ]
    /\ UNCHANGED <<reversepath_list, reverseonly, reversemagic, sock, ctor>>

(* ---------------------------------------------------------------------- *)
(* reverse_rewrite_url                                                     *)
(* ---------------------------------------------------------------------- *)

ComposeStrippingPath(reverse, url) == reverse.url \o StrFrom(url, Len(reverse.path))

ComposeStrippingSlash(reverse, url) == reverse.url \o StrFrom(url, 1)

(* strcpy (rewrite_url, reverse->url);
   strcat (rewrite_url, url + strlen (reverse->path)); *)
DirectCompose(reverse, url) == reverse.url \o StrFrom(url, Len(reverse.path))

(* strcpy (rewrite_url, reverse->url); strcat (rewrite_url, url + 1); *)
CookieCompose(reverse, url) == reverse.url \o StrFrom(url, 1)

ConsultsCookieAlways(magic, direct) == direct = NoRule

(* the else-if of the direct match: the header map is queried only when
   config.reversemagic is set (&& does not evaluate its right side
   otherwise) *)
ConsultsCookie(magic, direct) == direct = NoRule /\ magic

RejectsWhenFound(only, rewrite_url) == only /\ rewrite_url # NULL

(* config.reverseonly && !rewrite_url *)
Rejects(only, rewrite_url) == only /\ rewrite_url = NULL

(* The function up to its last log_message: the value of its locals, the
   calls it made and what it emitted.  lookups counts the calls of
   hashmap_entry_by_key, gets lists the arguments of reversepath_get.
   hashmap_entry_by_key (hashofheaders, "cookie", &cookie) > 0 is taken to
   hold exactly when the map has a cookie entry, whose value cookie then
   points to.  reversepath_add: safestrdup is taken to return a copy. *)
reverse_rewrite_url(list, only, magic, hashofheaders, url) ==
    LET slash      == Len(url) > 0 /\ url[1] = "/"
        direct     == IF slash THEN reversepath_get(list, url) ELSE Uninit
        looked     == slash /\ ConsultsCookie(magic, direct)
        has_cookie == looked /\ "cookie" \in DOMAIN hashofheaders
        cookie     == IF has_cookie THEN hashofheaders.cookie ELSE << >>
        cookieval  == IF has_cookie
                      THEN strstr(cookie, REVERSE_COOKIE \o <<"=">>)
                      ELSE 0
        marked     == cookieval # 0
        tail       == StrFrom(cookie, (cookieval - 1) + Len(REVERSE_COOKIE) + 1)
        bycookie   == IF marked THEN reversepath_get(list, tail) ELSE NoRule
        reverse    == IF ~slash THEN Uninit
                      ELSE IF direct # NoRule THEN direct
                      ELSE bycookie
        via        == IF slash /\ direct # NoRule THEN "direct"
                      ELSE IF slash /\ bycookie # NoRule THEN "cookie"
                      ELSE "none"
        rewrite_url == CASE via = "direct" -> DirectCompose(list[direct], url)
                         [] via = "cookie" -> CookieCompose(list[bycookie], url)
                         [] OTHER -> NULL
        rejected   == Rejects(only, rewrite_url)
    IN  [ rewrite_url |-> rewrite_url,
          reverse     |-> reverse,
          via         |-> via,
          rejected    |-> rejected,
          gets        |-> IF ~slash THEN << >>
                          ELSE IF marked THEN <<url, tail>> ELSE <<url>>,
          lookups     |-> IF looked THEN 1 ELSE 0,
          errors      |-> IF rejected
                          THEN << [code |-> 400, url |-> url] >>
                          ELSE << >>,
          logs        |-> (IF via = "cookie" THEN <<"LOG_INFO">> ELSE << >>)
                          \o (IF rejected THEN <<"LOG_ERR">> ELSE <<"LOG_CONN">>) ]

(* if (config.reversemagic)
       connptr->reversepath = safestrdup (reverse->path);
   The ways the function can end once the rejection test has passed.  With
   reverse a rule of the list its path is stored.  With reverse NULL (no
   rule matched) or never assigned (the url does not start with a slash)
   reverse->path is undefined behaviour: the process faults, or the read
   yields whatever the address holds, which for a stale pointer can be the
   path of a rule. *)
StoreOutcomes(list, magic, r, before) ==
    IF r.rejected \/ ~magic
    THEN { [crashed |-> FALSE, reversepath |-> before] }
    ELSE IF r.reverse \in 1..Len(list)
    THEN { [crashed |-> FALSE, reversepath |-> list[r.reverse].path] }
    ELSE { [crashed |-> TRUE, reversepath |-> before],
           [crashed |-> FALSE, reversepath |-> Garbage] }
         \cup (IF r.reverse = Uninit
               THEN { [crashed |-> FALSE, reversepath |-> list[i].path] :
                        i \in 1..Len(list) }
               ELSE { })

Rewrite ==
    /\ \E conn \in ConnArgs, hashofheaders \in HeaderMaps, url \in RequestUrls :
        LET r == reverse_rewrite_url(reversepath_list, reverseonly,
                                     reversemagic, hashofheaders, url)
        IN  \E out \in StoreOutcomes(reversepath_list, reversemagic, r,
                                     conn.reversepath) :
              /\ last' = [ NoCall EXCEPT
                             !.op = "rewrite", !.url = url,
                             !.hdr = hashofheaders,
                             !.ret = IF out.crashed \/ r.rejected
                                     THEN NULL ELSE r.rewrite_url,
                             !.rule = r.reverse,
                             !.rule_path = RulePath(reversepath_list, r.reverse),
                             !.via = r.via,
                             !.errors = r.errors,
                             !.logs = r.logs,
                             !.gets = r.gets,
                             !.lookups = r.lookups,
                             !.crashed = out.crashed,
                             !.pre_list = reversepath_list,
                             !.pre_conn = conn,
                             !.conn = [conn EXCEPT
                                         !.reversepath = out.reversepath] ]
    /\ UNCHANGED <<reversepath_list, reverseonly, reversemagic, sock, ctor>>

(* no call of sock.c in progress: pc is the place in the function, res the
   position of the candidate in the getaddrinfo result (0 for NULL), held
   the descriptors the process had open before the call, open those open
   now, events the system calls made on sockets, ipaddr and string_addr
   the caller's buffers, env what the system answered *)
SockIdle ==
    [ pc |-> "idle", op |-> "none", bind_to |-> NULL, bind_address |-> NULL,
      ipAddr |-> NULL, ncand |-> 0, res |-> 0, sockfd |-> -1,
      held |-> {}, open |-> {}, events |-> << >>,
      ret |-> 0, logs |-> << >>, ipaddr |-> NULL, string_addr |-> NULL,
      env |-> "none" ]

(* no reversepath_add in progress, no reader, the list empty.  heap holds
   the allocated struct reversepath objects, each with the set of its
   fields that have been assigned; head is config.reversepath_list *)
CtorIdle ==
    [ heap |-> << >>, head |-> NoRule,
      wpc |-> "idle", wstep |-> 0, reverse |-> NoRule,
      wpath |-> NULL, wurl |-> NULL,
      rpc |-> "idle", rurl |-> NULL, cursor |-> NoRule, seen |-> << >>,
      result |-> NoRule, fault |-> FALSE ]

Init ==
    /\ reversepath_list = << >>
    /\ reverseonly \in BOOLEAN
    /\ reversemagic \in BOOLEAN
    /\ last = NoCall
    /\ sock = SockIdle
    /\ ctor = CtorIdle

Next == AddRule \/ FindRule \/ Rewrite

Spec == Init /\ [][Next]_vars


(* ---------------------------------------------------------------------- *)
(* Vocabulary of the properties                                            *)
(* ---------------------------------------------------------------------- *)

IsPrefix(p, s) == Len(p) <= Len(s) /\ SubSeq(s, 1, Len(p)) = p

StartsWithSlash(s) == Len(s) > 0 /\ s[1] = "/"

Contains(s, n) == \E i \in 1..(Len(s) + 1) : IsPrefix(n, SubSeq(s, i, Len(s)))

SchemeSep == <<":", "/", "/">>

(* the arguments pass the three checks the interface names *)
ValidArgs(path, url) ==
    /\ url # NULL
    /\ Contains(url, SchemeSep)
    /\ (path = NULL \/ StartsWithSlash(path))

(* positions of the stored rules whose path is a prefix of url *)
Matching(list, url) == { i \in 1..Len(list) : IsPrefix(list[i].path, url) }

(* how the last call of reverse_rewrite_url ended *)
Outcome ==
    IF last.crashed THEN "crashed"
    ELSE IF last.ret # NULL THEN "rewritten"
    ELSE IF last.errors # << >> THEN "rejected"
    ELSE "passthrough"

Marker == REVERSE_COOKIE \o <<"=">>

HasMarker(hdr) == "cookie" \in DOMAIN hdr /\ Contains(hdr.cookie, Marker)

(* what follows the first marker of the cookie header *)
AfterMarker(hdr) ==
    LET c == hdr.cookie
        i == CHOOSE k \in 1..Len(c) :
                /\ IsPrefix(Marker, SubSeq(c, k, Len(c)))
                /\ \A j \in 1..(k - 1) : ~IsPrefix(Marker, SubSeq(c, j, Len(c)))
    IN  SubSeq(c, i + Len(Marker), Len(c))

(* ---------------------------------------------------------------------- *)
(* Properties                                                              *)
(* ---------------------------------------------------------------------- *)

(* C1: direct-match composition.  When the request URL starts with a slash
   and reversepath_get finds a rule for it, reverse_rewrite_url returns the
   rule's url followed by the request URL without its first
   strlen(rule.path) characters; a request URL equal to the rule's path
   yields exactly the rule's url. *)
C1_DirectComposition ==
    (last.op = "rewrite" /\ StartsWithSlash(last.url)
        /\ reversepath_get(reversepath_list, last.url) # NoRule)
    => LET rule == reversepath_list[reversepath_get(reversepath_list, last.url)]
       IN  /\ Outcome = "rewritten"
           /\ last.ret = rule.url \o SubSeq(last.url, Len(rule.path) + 1,
                                            Len(last.url))
           /\ (last.url = rule.path => last.ret = rule.url)

C1_Witness ==
    /\ last.op = "rewrite"
    /\ last.via = "direct"
    /\ last.rule_path = <<"/", "a">>
    /\ last.url = <<"/", "a", "/", "b">>
    /\ last.ret = <<"h", ":", "/", "/", "x", "/", "b">>

(* C2: recency ordering.  reversepath_get returns, among the stored rules
   whose path is a prefix of the url, the one added last; with two rules
   added for the same path it is the second. *)
C2_Recency ==
    last.op = "get"
    => LET M == Matching(reversepath_list, last.url)
       IN  IF M = {} THEN last.rule = NoRule
           ELSE /\ last.rule \in M
                /\ \A j \in M : reversepath_list[j].birth
                                  <= reversepath_list[last.rule].birth

C2_Witness ==
    /\ last.op = "get"
    /\ Len(reversepath_list) = 2
    /\ reversepath_list[1].path = reversepath_list[2].path
    /\ reversepath_list[1].url # reversepath_list[2].url
    /\ last.rule # NoRule
    /\ reversepath_list[last.rule].birth = 2
    /\ last.ret = reversepath_list[1].url

(* C3: match semantics.  reversepath_get returns a rule exactly when some
   stored path is a prefix of the url, and the rule it returns has such a
   path; a path occurring only further inside the url does not match.  So
   for every stored rule and every url its path is a prefix of,
   reversepath_get returns that rule or a matching rule added later; and a
   reversepath_add with valid arguments whose allocation succeeds stores
   the rule at the head. *)
C3_PrefixMatch ==
    /\ last.op = "get"
       => /\ (last.rule # NoRule) <=> (Matching(reversepath_list, last.url) # {})
          /\ last.rule # NoRule
             => IsPrefix(reversepath_list[last.rule].path, last.url)
    /\ \A i \in 1..Len(reversepath_list), u \in GetArgs :
          IsPrefix(reversepath_list[i].path, u)
          => LET k == reversepath_get(reversepath_list, u)
             IN  /\ k # NoRule
                 /\ IsPrefix(reversepath_list[k].path, u)
                 /\ reversepath_list[k].birth >= reversepath_list[i].birth
    /\ (last.op = "add" /\ ValidArgs(last.path, last.url)
           /\ last.via # "no memory")
       => /\ Len(reversepath_list) = Len(last.pre_list) + 1
          /\ reversepath_list[1].path =
                (IF last.path = NULL THEN <<"/">> ELSE last.path)
          /\ reversepath_list[1].url = last.url
          /\ \A u \in GetArgs :
                IsPrefix(reversepath_list[1].path, u)
                => reversepath_get(reversepath_list, u) = 1

(* the path /a occurs in /b/a, but not at its start *)
C3_Witness ==
    /\ last.op = "get"
    /\ last.url = <<"/", "b", "/", "a">>
    /\ Len(reversepath_list) > 0
    /\ \A i \in 1..Len(reversepath_list) :
          reversepath_list[i].path = <<"/", "a">>
    /\ last.rule = NoRule

(* C4: table validity.  Every stored rule has a path starting with a slash
   and a url containing "://", whatever arguments reversepath_add was
   called with; a call whose arguments fail a check leaves the list as it
   was; and reversepath_get never returns a rule that fails them. *)
C4_TableValid ==
    /\ \A i \in 1..Len(reversepath_list) :
          /\ StartsWithSlash(reversepath_list[i].path)
          /\ Contains(reversepath_list[i].url, SchemeSep)
    /\ (last.op = "add" /\ ~ValidArgs(last.path, last.url))
       => reversepath_list = last.pre_list
    /\ (last.op = "get" /\ last.rule # NoRule)
       => /\ StartsWithSlash(last.rule_path)
          /\ Contains(last.ret, SchemeSep)

C4_Witness ==
    /\ last.op = "add"
    /\ last.path = <<"a">>
    /\ last.url = <<"h", ":", "/", "/", "x">>
    /\ Len(reversepath_list) = 1
    /\ reversepath_list = last.pre_list

(* C5: pass-through on no match.  When the request URL starts with a slash,
   neither the direct match nor the cookie fallback finds a rule and
   config.reverseonly is off, reverse_rewrite_url returns "no rewrite"
   without an error response, for every setting of config.reversemagic,
   every header map and every list. *)
C5_PassThrough ==
    (last.op = "rewrite" /\ StartsWithSlash(last.url) /\ last.via = "none"
        /\ ~reverseonly)
    => /\ Outcome = "passthrough"
       /\ last.errors = << >>

(* C6: rejection in reverse-only mode.  When the request URL starts with a
   slash, no rule is found either way and config.reverseonly is on,
   reverse_rewrite_url returns NULL after exactly one error response with
   status 400 carrying the request URL, and leaves the connection's
   reverse path alone; no error response is emitted when a rule was
   found. *)
C6_RejectReverseOnly ==
    /\ (last.op = "rewrite" /\ StartsWithSlash(last.url) /\ last.via = "none"
           /\ reverseonly)
       => /\ Outcome = "rejected"
          /\ last.errors = << [code |-> 400, url |-> last.url] >>
          /\ last.ret = NULL
          /\ last.conn = last.pre_conn
    /\ (last.op = "rewrite" /\ last.via # "none") => last.errors = << >>

C6_Witness ==
    /\ last.op = "rewrite"
    /\ reverseonly
    /\ reversemagic
    /\ last.url = <<"/", "b", "/", "a">>
    /\ "cookie" \in DOMAIN last.hdr
    /\ last.hdr.cookie = <<"t", "=", "z">>
    /\ Len(reversepath_list) > 0
    /\ last.errors = << [code |-> 400, url |-> <<"/", "b", "/", "a">>] >>

(* C7: absolute-URI targets are never touched.  For a request URL that does
   not start with a slash, in every configuration, reverse_rewrite_url
   passes the URL through: no rewritten URL, no call of reversepath_get, no
   look at the cookie header, no rejection, the connection as it was. *)
C7_AbsoluteUntouched ==
    (last.op = "rewrite" /\ ~StartsWithSlash(last.url))
    => /\ Outcome = "passthrough"
       /\ last.gets = << >>
       /\ last.lookups = 0
       /\ last.conn = last.pre_conn

(* C8: cookie-fallback composition.  When the request URL starts with a
   slash, reversepath_get finds nothing for it, config.reversemagic is on,
   the cookie header holds the marker and reversepath_get finds a rule for
   what follows the marker, reverse_rewrite_url returns the rule's url
   followed by the request URL without its first character; and the cookie
   is not used when the direct match finds a rule. *)
C8_CookieComposition ==
    /\ (last.op = "rewrite" /\ StartsWithSlash(last.url)
           /\ reversepath_get(reversepath_list, last.url) = NoRule
           /\ reversemagic
           /\ HasMarker(last.hdr)
           /\ reversepath_get(reversepath_list, AfterMarker(last.hdr)) # NoRule)
       => LET rule == reversepath_list[
                         reversepath_get(reversepath_list, AfterMarker(last.hdr))]
          IN  /\ Outcome = "rewritten"
              /\ last.ret = rule.url \o SubSeq(last.url, 2, Len(last.url))
    /\ (last.op = "rewrite" /\ StartsWithSlash(last.url)
           /\ reversepath_get(reversepath_list, last.url) # NoRule)
       => /\ last.via = "direct"
          /\ last.lookups = 0
          /\ last.gets = <<last.url>>

C8_Witness ==
    /\ last.op = "rewrite"
    /\ last.via = "cookie"
    /\ last.url = <<"/", "b", "/", "a">>
    /\ last.hdr.cookie = <<"x", "t", "=", "/", "a", ";">>
    /\ last.rule_path = <<"/", "a">>
    /\ last.ret = <<"h", ":", "/", "/", "x", "b", "/", "a">>

(* C9: affinity recording.  After reverse_rewrite_url returns, the
   connection's reverse path is the path of the rule that satisfied the
   request when one was found and config.reversemagic is on; in every
   other case the connection's reverse path is as it was. *)
C9_AffinityRecording ==
    (last.op = "rewrite" /\ ~last.crashed)
    => IF last.via # "none" /\ reversemagic
       THEN last.conn.reversepath = last.rule_path
       ELSE last.conn = last.pre_conn

(* C10: cookie independence.  With config.reversemagic off the header map
   is not queried, and the call ends the same way (same returned URL, same
   error responses, same connection) for every header map, the list, the
   flags, the connection and the request URL being the same. *)
C10_CookieIndependence ==
    (last.op = "rewrite" /\ ~reversemagic)
    => /\ last.lookups = 0
       /\ \A h2 \in HeaderMaps :
             LET r2 == reverse_rewrite_url(reversepath_list, reverseonly,
                                           reversemagic, h2, last.url)
             IN  /\ last.ret = (IF r2.rejected THEN NULL ELSE r2.rewrite_url)
                 /\ last.errors = r2.errors
                 /\ StoreOutcomes(reversepath_list, reversemagic, r2,
                                  last.pre_conn.reversepath)
                      = { [crashed |-> last.crashed,
                           reversepath |-> last.conn.reversepath] }

(* the cookie names a stored path, the direct match fails, and the request
   is still passed through *)
C10_Witness ==
    /\ last.op = "rewrite"
    /\ ~reversemagic
    /\ ~reverseonly
    /\ last.url = <<"/", "b", "/", "a">>
    /\ "cookie" \in DOMAIN last.hdr
    /\ last.hdr.cookie = <<"t", "=", "/", "a">>
    /\ \E i \in 1..Len(reversepath_list) :
          reversepath_list[i].path = <<"/", "a">>
    /\ Outcome = "passthrough"
    /\ last.lookups = 0


(* ---------------------------------------------------------------------- *)
(* Properties of the list and of the rewrite, continued                    *)
(* ---------------------------------------------------------------------- *)

IsSuffix(old, new) ==
    /\ Len(old) <= Len(new)
    /\ SubSeq(new, Len(new) - Len(old) + 1, Len(new)) = old

(* C14: table frame.  The list changes only in a reversepath_add that
   passes its checks, which puts exactly one rule in front of it; across
   every step the list before is a suffix of the list after, so stored
   rules are never modified, reordered or removed; reversepath_get and
   reverse_rewrite_url, however they end, leave the list as it was. *)
C14_TableFrame ==
    [][ /\ IsSuffix(reversepath_list, reversepath_list')
        /\ reversepath_list' # reversepath_list
           => /\ last'.op = "add"
              /\ last'.via = "ok"
              /\ Len(reversepath_list') = Len(reversepath_list) + 1
        /\ (last'.op = "add" /\ last'.via = "ok")
           => Len(reversepath_list') = Len(reversepath_list) + 1
        /\ last'.op \in {"get", "rewrite"}
           => reversepath_list' = reversepath_list ]_vars

C14_Witness ==
    /\ last.op = "add"
    /\ last.via = "ok"
    /\ Len(last.pre_list) = 1
    /\ Len(reversepath_list) = 2
    /\ reversepath_list[2] = last.pre_list[1]

(* C15: default path.  reversepath_add with no path and a valid url (its
   allocation succeeding) stores a rule with path "/" and that url; while
   no rule added after it matches, reversepath_get returns it for every
   url starting with a slash, whatever rules were added before it. *)
C15_DefaultPath ==
    /\ (last.op = "add" /\ last.path = NULL /\ ValidArgs(last.path, last.url)
           /\ last.via # "no memory")
       => /\ Len(reversepath_list) = Len(last.pre_list) + 1
          /\ reversepath_list[1].path = <<"/">>
          /\ reversepath_list[1].url = last.url
          /\ \A u \in GetArgs :
                StartsWithSlash(u) => reversepath_get(reversepath_list, u) = 1
    /\ \A i \in 1..Len(reversepath_list), u \in GetArgs :
          (/\ reversepath_list[i].path = <<"/">>
           /\ StartsWithSlash(u)
           /\ \A j \in 1..(i - 1) : ~IsPrefix(reversepath_list[j].path, u))
          => reversepath_get(reversepath_list, u) = i
    /\ (last.op = "get" /\ StartsWithSlash(last.url)
           /\ Len(reversepath_list) > 0
           /\ reversepath_list[1].path = <<"/">>)
       => /\ last.rule = 1
          /\ last.ret = reversepath_list[1].url

(* the rule for "/" shadows the older rule for /a on a url under /a *)
C15_Witness ==
    /\ last.op = "get"
    /\ last.url = <<"/", "a", "/", "b">>
    /\ Len(reversepath_list) = 2
    /\ reversepath_list[1].path = <<"/">>
    /\ reversepath_list[2].path = <<"/", "a">>
    /\ reversepath_list[1].url # reversepath_list[2].url
    /\ last.rule = 1

(* C20: composition stays in bounds.  In both compositions the offset into
   the request URL does not exceed its length (strlen(reverse->path) in the
   direct match, 1 in the cookie fallback), and the composed string with
   its terminator fits the strlen(url) + strlen(reverse->url) + 1 bytes
   allocated for it. *)
C20_CompositionInBounds ==
    (last.op = "rewrite" /\ last.via \in {"direct", "cookie"})
    => LET offset  == IF last.via = "direct" THEN Len(last.rule_path) ELSE 1
           backend == RuleUrl(reversepath_list, last.rule)
           size    == Len(last.url) + Len(backend) + 1
       IN  /\ offset <= Len(last.url)
           /\ Len(backend) + (Len(last.url) - offset) + 1 <= size
           /\ ~last.crashed => Len(last.ret) + 1 <= size

(* the offset reaches the end of the request URL *)
C20_Witness ==
    /\ last.op = "rewrite"
    /\ last.via = "direct"
    /\ last.url = <<"/", "a">>
    /\ last.rule_path = <<"/", "a">>
    /\ last.ret = RuleUrl(reversepath_list, last.rule)


(* ---------------------------------------------------------------------- *)
(* sock.c                                                                  *)
(* ---------------------------------------------------------------------- *)

(* Bound of the model: the number of candidates getaddrinfo may return. *)
MaxCandidates == 2

rvars == <<reversepath_list, reverseonly, reversemagic, last>>

(* bind_to arguments of opensock, and config.bind_address *)
BindToArgs == { NULL, <<"b">> }

BindAddressArgs == { NULL, <<"c">> }

(* config.ipAddr *)
ListenAddrArgs == { NULL, <<"i">> }

(* descriptors the process holds when opensock is called *)
HeldSets == { {}, {3} }

(* what getaddrinfo and bind answer inside bind_socket: the lookup fails,
   or it yields addresses, binds[i] telling whether bind succeeds on the
   i-th *)
BindEnvs ==
    { [gai |-> FALSE, binds |-> << >>] } \cup
    { [gai |-> TRUE, binds |-> b] :
        b \in { <<TRUE>>, <<FALSE>>, <<FALSE, TRUE>>, <<FALSE, FALSE>> } }

(* the numeric form of an address, a host name, the default of
   getpeer_information *)
NumericAddr == <<"1">>

HostName == <<"n">>

Unknown == <<"[", "u", "n", "k", "n", "o", "w", "n", "]">>

(* what getnameinfo reports on failure: EAI_AGAIN of glibc and of the BSDs *)
GaiErrors == { -3, 2 }

(* a descriptor the kernel hands out: the lowest one not open *)
LowestFree(open) ==
    CHOOSE n \in 3..(3 + Cardinality(open)) :
        /\ n \notin open
        /\ \A m \in 3..(n - 1) : m \in open

Ev(call, cand, fd, ok, addr) ==
    [call |-> call, cand |-> cand, fd |-> fd, ok |-> ok, addr |-> addr]

(* bind_socket: the do-while over the addresses of the bind address; the
   position of the address bind succeeded on, 0 for res == NULL *)
RECURSIVE bind_loop(_, _)
bind_loop(binds, res) ==
    IF res > Len(binds) THEN 0
    ELSE IF binds[res] THEN res
    ELSE bind_loop(binds, res + 1)

bind_socket(sockfd, addr, env) ==
    IF ~env.gai THEN -1
    ELSE IF bind_loop(env.binds, 1) = 0 THEN -1
    ELSE sockfd

BindAddressDefaultFirst(bind_to, bind_address) ==
    IF bind_address # NULL THEN bind_address ELSE bind_to

(* if (bind_to) ... else if (config.bind_address) ...: the address the
   socket is bound to, NULL for none *)
BindAddress(bind_to, bind_address) ==
    IF bind_to # NULL THEN bind_to ELSE bind_address

GiveUp(res, ncand) == 0

(* while ((res = res->ai_next) != NULL): the next candidate, 0 for NULL *)
NextCandidate(res, ncand) == IF res < ncand THEN res + 1 ELSE 0

LeakSock(open, fd) == open

(* close (sockfd) *)
CloseSock(open, fd) == open \ {fd}

(* opensock up to the getaddrinfo call: ncand = 0 stands for its error *)
OpensockCall ==
    /\ sock.pc \in {"idle", "done"}
    /\ \E bind_to \in BindToArgs, held \in HeldSets, n \in 0..MaxCandidates :
        sock' = [ SockIdle EXCEPT
                    !.op = "opensock",
                    !.bind_address = sock.bind_address,
                    !.ipAddr = sock.ipAddr,
                    !.bind_to = bind_to,
                    !.held = held, !.open = held,
                    !.ncand = n,
                    !.res = IF n = 0 THEN 0 ELSE 1,
                    !.pc = IF n = 0 THEN "done" ELSE "socket",
                    !.ret = IF n = 0 THEN -1 ELSE 0,
                    !.logs = IF n = 0 THEN <<"LOG_ERR">> ELSE << >>,
                    !.env = IF n = 0 THEN "getaddrinfo" ELSE "none" ]
    /\ UNCHANGED <<rvars, ctor>>

(* sockfd = socket (...); if (sockfd < 0) continue; *)
OpensockSocket ==
    /\ sock.pc = "socket"
    /\ \E ok \in BOOLEAN :
        LET fd == LowestFree(sock.open)
        IN  sock' = IF ok
                    THEN [ sock EXCEPT
                             !.sockfd = fd,
                             !.open = sock.open \cup {fd},
                             !.events = Append(sock.events,
                                 Ev("socket", sock.res, fd, TRUE, NULL)),
                             !.pc = "bind" ]
                    ELSE [ sock EXCEPT
                             !.sockfd = -1,
                             !.events = Append(sock.events,
                                 Ev("socket", sock.res, -1, FALSE, NULL)),
                             !.pc = "cond" ]
    /\ UNCHANGED <<rvars, ctor>>

(* the bind of lines 105-116: none without a bind address; on failure the
   socket is closed and the loop continues *)
OpensockBind ==
    /\ sock.pc = "bind"
    /\ LET addr == BindAddress(sock.bind_to, sock.bind_address)
       IN  IF addr = NULL
           THEN sock' = [sock EXCEPT !.pc = "connect"]
           ELSE \E env \in BindEnvs :
                  IF bind_socket(sock.sockfd, addr, env) < 0
                  THEN sock' = [ sock EXCEPT
                          !.events = sock.events \o
                              << Ev("bind", sock.res, sock.sockfd, FALSE, addr),
                                 Ev("close", sock.res, sock.sockfd, TRUE, NULL) >>,
                          !.open = CloseSock(sock.open, sock.sockfd),
                          !.pc = "cond" ]
                  ELSE sock' = [ sock EXCEPT
                          !.events = Append(sock.events,
                              Ev("bind", sock.res, sock.sockfd, TRUE, addr)),
                          !.pc = "connect" ]
    /\ UNCHANGED <<rvars, ctor>>

(* if (connect (...) == 0) break; close (sockfd); *)
OpensockConnect ==
    /\ sock.pc = "connect"
    /\ \E ok \in BOOLEAN :
        sock' = IF ok
                THEN [ sock EXCEPT
                         !.events = Append(sock.events,
                             Ev("connect", sock.res, sock.sockfd, TRUE, NULL)),
                         !.pc = "after" ]
                ELSE [ sock EXCEPT
                         !.events = sock.events \o
                             << Ev("connect", sock.res, sock.sockfd, FALSE, NULL),
                                Ev("close", sock.res, sock.sockfd, TRUE, NULL) >>,
                         !.open = CloseSock(sock.open, sock.sockfd),
                         !.pc = "cond" ]
    /\ UNCHANGED <<rvars, ctor>>

(* the loop condition, which continue jumps to as well *)
OpensockCond ==
    /\ sock.pc = "cond"
    /\ LET next == NextCandidate(sock.res, sock.ncand)
       IN  sock' = [ sock EXCEPT
                       !.res = next,
                       !.pc = IF next # 0 THEN "socket" ELSE "after" ]
    /\ UNCHANGED <<rvars, ctor>>

(* freeaddrinfo; if (res == NULL) { log; return -1; } return sockfd; *)
OpensockReturn ==
    /\ sock.pc = "after"
    /\ sock' = IF sock.res = 0
               THEN [ sock EXCEPT
                        !.ret = -1,
                        !.logs = Append(sock.logs, "LOG_ERR"),
                        !.env = "exhausted",
                        !.pc = "done" ]
               ELSE [ sock EXCEPT !.ret = sock.sockfd, !.pc = "done" ]
    /\ UNCHANGED <<rvars, ctor>>

(* a call of one of the straight-line functions starts from here: the
   configuration kept, the caller's buffers not yet written *)
SockCall(op) ==
    [ SockIdle EXCEPT
        !.op = op,
        !.bind_address = sock.bind_address,
        !.ipAddr = sock.ipAddr,
        !.ipaddr = Garbage,
        !.string_addr = Garbage,
        !.pc = "done" ]

(* listen_sock: socket, setsockopt, bind to config.ipAddr or 0.0.0.0,
   listen.  A failed socket() leaves listenfd at -1, on which bind fails. *)
ListenSock ==
    /\ sock.pc \in {"idle", "done"}
    /\ \E socket_ok \in BOOLEAN, bind_ok \in BOOLEAN, listen_ok \in BOOLEAN :
        LET listenfd == IF socket_ok THEN LowestFree({}) ELSE -1
            addr     == IF sock.ipAddr # NULL THEN sock.ipAddr
                        ELSE <<"0", ".", "0", ".", "0", ".", "0">>
            bound    == socket_ok /\ bind_ok
            c        == SockCall("listen_sock")
        IN  sock' = [ c EXCEPT
                        !.open = IF socket_ok THEN {listenfd} ELSE {},
                        !.sockfd = listenfd,
                        !.events =
                            << Ev("socket", 0, listenfd, socket_ok, NULL),
                               Ev("bind", 0, listenfd, bound, addr) >>
                            \o (IF bound
                                THEN << Ev("listen", 0, listenfd, listen_ok, NULL) >>
                                ELSE << >>),
                        !.env = IF ~bound THEN "bind"
                                ELSE IF ~listen_ok THEN "listen" ELSE "ok",
                        !.logs = IF bound /\ listen_ok THEN << >>
                                 ELSE <<"LOG_ERR">>,
                        !.ret = IF bound /\ listen_ok THEN listenfd ELSE -1 ]
    /\ UNCHANGED <<rvars, ctor>>

(* socket_nonblocking and socket_blocking: the value of the second fcntl *)
SocketNonblocking ==
    /\ sock.pc \in {"idle", "done"}
    /\ \E setfl_ok \in BOOLEAN :
        sock' = [ SockCall("socket_nonblocking") EXCEPT
                    !.sockfd = 3, !.open = {3},
                    !.env = IF setfl_ok THEN "ok" ELSE "fcntl",
                    !.ret = IF setfl_ok THEN 0 ELSE -1 ]
    /\ UNCHANGED <<rvars, ctor>>

SocketBlocking ==
    /\ sock.pc \in {"idle", "done"}
    /\ \E setfl_ok \in BOOLEAN :
        sock' = [ SockCall("socket_blocking") EXCEPT
                    !.sockfd = 3, !.open = {3},
                    !.env = IF setfl_ok THEN "ok" ELSE "fcntl",
                    !.ret = IF setfl_ok THEN 0 ELSE -1 ]
    /\ UNCHANGED <<rvars, ctor>>

(* what get_ip_string may leave in the buffer when it returns NULL *)
FailedIpStrings == { << >>, Garbage }

(* getsock_ip *)
GetsockIp ==
    /\ sock.pc \in {"idle", "done"}
    /\ \E env \in {"getsockname", "get_ip_string", "ok"},
          junk \in FailedIpStrings :
        LET c == SockCall("getsock_ip")
        IN  sock' = [ c EXCEPT
                        !.sockfd = 3, !.open = {3},
                        !.env = env,
                        !.logs = IF env = "getsockname"
                                 THEN <<"LOG_ERR">> ELSE << >>,
                        !.ipaddr = CASE env = "getsockname" -> c.ipaddr
                                     [] env = "get_ip_string" -> junk
                                     [] OTHER -> NumericAddr,
                        !.ret = IF env = "ok" THEN 0 ELSE -1 ]
    /\ UNCHANGED <<rvars, ctor>>

HostnameLeftAsPassed(string_addr) == string_addr

(* strlcpy (string_addr, "[unknown]", HOSTNAME_LENGTH), before any lookup *)
HostnameDefault(string_addr) == Unknown

(* getpeer_information: env names the call that failed.  getnameinfo is
   called without flags: when it returns 0 the buffer holds the host name
   or, if there is none, the numeric form; when it fails it is taken to
   leave the buffer alone, and its error code is the return value. *)
getpeer_information(ipaddr, string_addr, env, junk, host, err) ==
    LET ipaddr0 == << >>
        string0 == HostnameDefault(string_addr)
    IN  CASE env = "getpeername" ->
               [ret |-> -1, ipaddr |-> ipaddr0, string_addr |-> string0]
          [] env = "get_ip_string" ->
               [ret |-> -1, ipaddr |-> junk, string_addr |-> string0]
          [] env = "getnameinfo" ->
               [ret |-> err, ipaddr |-> NumericAddr, string_addr |-> string0]
          [] OTHER ->
               [ret |-> 0, ipaddr |-> NumericAddr, string_addr |-> host]

GetpeerInformation ==
    /\ sock.pc \in {"idle", "done"}
    /\ \E env \in {"getpeername", "get_ip_string", "getnameinfo", "ok"},
          junk \in FailedIpStrings,
          host \in {HostName, NumericAddr},
          err \in GaiErrors :
        LET c == SockCall("getpeer_information")
            r == getpeer_information(c.ipaddr, c.string_addr, env, junk,
                                     host, err)
        IN  sock' = [ c EXCEPT
                        !.sockfd = 3, !.open = {3},
                        !.env = env,
                        !.ipaddr = r.ipaddr,
                        !.string_addr = r.string_addr,
                        !.ret = r.ret ]
    /\ UNCHANGED <<rvars, ctor>>

SockInit ==
    /\ reversepath_list = << >>
    /\ reverseonly = FALSE
    /\ reversemagic = FALSE
    /\ last = NoCall
    /\ ctor = CtorIdle
    /\ \E b \in BindAddressArgs, ip \in ListenAddrArgs :
          sock = [SockIdle EXCEPT !.bind_address = b, !.ipAddr = ip]

SockNext ==
    \/ OpensockCall
    \/ OpensockSocket
    \/ OpensockBind
    \/ OpensockConnect
    \/ OpensockCond
    \/ OpensockReturn
    \/ ListenSock
    \/ SocketNonblocking
    \/ SocketBlocking
    \/ GetsockIp
    \/ GetpeerInformation

SockSpec == SockInit /\ [][SockNext]_vars


(* ---------------------------------------------------------------------- *)
(* Properties of sock.c                                                    *)
(* ---------------------------------------------------------------------- *)

(* positions in sock.events of the calls named call made for candidate i *)
EvOf(call, i) ==
    { k \in 1..Len(sock.events) :
        sock.events[k].call = call /\ sock.events[k].cand = i }

Tried(i) == EvOf("socket", i) # {}

(* socket creation, the bind if there was one, and connect all succeeded *)
Succeeded(i) ==
    /\ \E k \in EvOf("socket", i) : sock.events[k].ok
    /\ \A k \in EvOf("bind", i) : sock.events[k].ok
    /\ \E k \in EvOf("connect", i) : sock.events[k].ok

Resolved == sock.op = "opensock" /\ sock.ncand > 0

(* C11: candidate fallback.  After a successful resolution opensock tries
   the candidates in resolution order, each at most once; it returns the
   socket connected to the first candidate for which socket, the optional
   bind and connect all succeed, without trying a later one and without
   logging the failures before it; it fails only once every candidate has
   been tried and has failed. *)
C11_CandidateFallback ==
    Resolved
    => /\ \A i \in 1..sock.ncand :
             /\ Cardinality(EvOf("socket", i)) <= 1
             /\ Cardinality(EvOf("connect", i)) <= 1
       /\ \A k, l \in 1..Len(sock.events) :
             (k < l /\ sock.events[k].call = "socket"
                    /\ sock.events[l].call = "socket")
             => sock.events[k].cand < sock.events[l].cand
       /\ \A k \in 1..Len(sock.events) : sock.events[k].cand \in 1..sock.ncand
       /\ (sock.pc = "done" /\ sock.ret >= 0)
          => \E c \in 1..sock.ncand :
                /\ Succeeded(c)
                /\ \E k \in EvOf("connect", c) : sock.events[k].fd = sock.ret
                /\ \A i \in 1..(c - 1) : Tried(i) /\ ~Succeeded(i)
                /\ \A i \in (c + 1)..sock.ncand : ~Tried(i)
                /\ sock.logs = << >>
       /\ (sock.pc = "done" /\ sock.ret < 0)
          => /\ \A i \in 1..sock.ncand : Tried(i) /\ ~Succeeded(i)
             /\ sock.logs = <<"LOG_ERR">>

(* two candidates, the first refused, the second connected *)
C11_Witness ==
    /\ Resolved
    /\ sock.pc = "done"
    /\ sock.ncand = 2
    /\ \E k \in EvOf("connect", 1) : ~sock.events[k].ok
    /\ Succeeded(2)
    /\ sock.ret >= 0
    /\ sock.logs = << >>

(* C16: bind ordering.  With a bind address in effect (bind_to if given,
   else config.bind_address if set, bind_to taking precedence) every
   socket is bound to it before connect is tried on it; after a failed
   bind the socket is closed, connect is not tried on it and the next
   candidate is taken.  With no bind address there is no bind. *)
C16_BindBeforeConnect ==
    Resolved
    => LET addr == IF sock.bind_to # NULL THEN sock.bind_to
                   ELSE sock.bind_address
       IN  /\ addr = NULL
              => \A k \in 1..Len(sock.events) : sock.events[k].call # "bind"
           /\ addr # NULL
              => /\ \A k \in 1..Len(sock.events) :
                       sock.events[k].call = "bind"
                       => sock.events[k].addr = addr
                 /\ \A k \in 1..Len(sock.events) :
                       sock.events[k].call = "connect"
                       => \E j \in 1..(k - 1) :
                             /\ sock.events[j].call = "bind"
                             /\ sock.events[j].ok
                             /\ sock.events[j].cand = sock.events[k].cand
                             /\ sock.events[j].fd = sock.events[k].fd
           /\ \A k \in 1..Len(sock.events) :
                 (sock.events[k].call = "bind" /\ ~sock.events[k].ok)
                 => /\ k < Len(sock.events)
                    /\ sock.events[k + 1].call = "close"
                    /\ sock.events[k + 1].fd = sock.events[k].fd
                    /\ EvOf("connect", sock.events[k].cand) = {}
                    /\ \A l \in (k + 2)..Len(sock.events) :
                          sock.events[l].cand = sock.events[k].cand + 1
                          \/ sock.events[l].cand > sock.events[k].cand + 1

(* both addresses given: the bind on the explicit one fails for the first
   candidate, succeeds for the second, which then connects *)
C16_Witness ==
    /\ Resolved
    /\ sock.pc = "done"
    /\ sock.bind_to = <<"b">>
    /\ sock.bind_address = <<"c">>
    /\ \E k \in EvOf("bind", 1) : ~sock.events[k].ok
    /\ \E k \in EvOf("bind", 2) :
          sock.events[k].ok /\ sock.events[k].addr = <<"b">>
    /\ Succeeded(2)

(* C19: descriptor accounting.  When opensock returns, every socket it
   created for a candidate that did not succeed has been closed exactly
   once; on failure (a resolution failure included, where none is created)
   no socket it created is open; on success exactly one is, the returned
   one, which was never closed. *)
C19_DescriptorAccounting ==
    (sock.op = "opensock" /\ sock.pc = "done")
    => /\ sock.ncand = 0 => (sock.events = << >> /\ sock.open = sock.held)
       /\ sock.ret < 0
          => /\ sock.open = sock.held
             /\ \A i \in 1..sock.ncand :
                   Cardinality(EvOf("close", i)) =
                      (IF \E k \in EvOf("socket", i) : sock.events[k].ok
                       THEN 1 ELSE 0)
       /\ sock.ret >= 0
          => /\ sock.ret \notin sock.held
             /\ sock.open = sock.held \cup {sock.ret}
             /\ EvOf("close", sock.res) = {}
             /\ \E k \in EvOf("socket", sock.res) :
                   sock.events[k].ok /\ sock.events[k].fd = sock.ret
             /\ \A i \in 1..sock.ncand :
                   i # sock.res
                   => Cardinality(EvOf("close", i)) =
                         (IF \E k \in EvOf("socket", i) : sock.events[k].ok
                          THEN 1 ELSE 0)

(* the first socket is closed after a refused connect, and the descriptor
   number is handed out again for the second, which is returned *)
C19_Witness ==
    /\ sock.op = "opensock"
    /\ sock.pc = "done"
    /\ sock.held = {3}
    /\ sock.ncand = 2
    /\ Cardinality(EvOf("close", 1)) = 1
    /\ \E k \in EvOf("close", 1) : sock.events[k].fd = sock.ret
    /\ sock.ret = 4
    /\ sock.open = {3, 4}

(* C12: failure condition of getpeer_information.  It fails only if
   getpeername or the conversion to a numeric string fails; when the
   numeric address is obtained and the reverse lookup fails it reports
   success, with the numeric address and "[unknown]" as the host name. *)
C12_PeerInfoFailure ==
    (sock.op = "getpeer_information" /\ sock.pc = "done")
    => /\ sock.ret # 0 => sock.env \in {"getpeername", "get_ip_string"}
       /\ sock.env = "getnameinfo"
          => /\ sock.ret = 0
             /\ sock.ipaddr = NumericAddr
             /\ sock.string_addr = Unknown

(* a call of sock.c ended in failure *)
SockFailed ==
    /\ sock.pc = "done"
    /\ IF sock.op = "getpeer_information" THEN sock.ret # 0
       ELSE sock.op # "none" /\ sock.ret < 0

(* C13: no silent failure.  Every failure of reversepath_add,
   reverse_rewrite_url, opensock, listen_sock, getsock_ip,
   getpeer_information, socket_nonblocking and socket_blocking comes with
   at least one log entry written during the call. *)
C13_NoSilentFailure ==
    /\ (last.op = "add" /\ last.via # "ok") => last.logs # << >>
    /\ (last.op = "rewrite" /\ Outcome = "rejected") => last.logs # << >>
    /\ SockFailed => sock.logs # << >>

(* C17: the sentinel.  getpeer_information sets the host name buffer to
   "[unknown]" before any lookup, so at every return where the lookup did
   not succeed (getpeername, the numeric conversion or getnameinfo failed)
   the buffer holds "[unknown]"; when getpeername fails the numeric address
   buffer holds the empty string. *)
C17_Sentinel ==
    (sock.op = "getpeer_information" /\ sock.pc = "done")
    => /\ sock.env # "ok" => sock.string_addr = Unknown
       /\ sock.env = "getpeername" => sock.ipaddr = << >>

C17_Witness ==
    /\ sock.op = "getpeer_information"
    /\ sock.pc = "done"
    /\ sock.env = "getnameinfo"
    /\ sock.ret # 0
    /\ sock.ipaddr = NumericAddr
    /\ sock.string_addr = Unknown


(* ---------------------------------------------------------------------- *)
(* reversepath_add and reversepath_get, statement by statement             *)
(* ---------------------------------------------------------------------- *)

(* The source starts no thread; the steps below interleave the statements
   of one reversepath_add, in program order, with those of one
   reversepath_get, which is the finest interleaving a worker sharing the
   list could observe. *)

AddStepsHeadFirst == <<"head", "path", "url", "next">>

(* the assignments of reversepath_add after the allocation, in order *)
AddSteps == <<"path", "url", "next", "head">>

(* the object safemalloc returns: no field assigned yet *)
FreshNode == [ path |-> NULL, url |-> NULL, next |-> Uninit, set |-> {} ]

(* the objects reached from pointer p through the next fields that have
   been assigned *)
RECURSIVE Chain(_, _, _)
Chain(heap, p, fuel) ==
    IF p \notin 1..Len(heap) \/ fuel = 0 THEN << >>
    ELSE <<p>> \o (IF "next" \in heap[p].set
                   THEN Chain(heap, heap[p].next, fuel - 1)
                   ELSE << >>)

(* the list as reversepath_get would walk it from pointer p *)
Table(heap, p) ==
    LET ids == Chain(heap, p, Len(heap) + 1)
    IN  [ i \in 1..Len(ids) |->
            [ path |-> heap[ids[i]].path, url |-> heap[ids[i]].url,
              birth |-> ids[i] ] ]

(* after the statement at position wstep *)
AfterStep(c) ==
    IF c.wstep < Len(AddSteps)
    THEN [ c EXCEPT !.wstep = c.wstep + 1 ]
    ELSE [ c EXCEPT !.wstep = 0, !.wpc = "log" ]

AtStep(name) == ctor.wpc = "run" /\ AddSteps[ctor.wstep] = name

(* lines 32-60: the checks and the allocation *)
CtorAddCall ==
    /\ ctor.wpc = "idle"
    /\ Len(ctor.heap) < MaxRules
    /\ \E path \in PathArgs, url \in UrlArgs :
       \E alloc_ok \in AllocResults(path, url) :
        IF AddVerdict(path, url, alloc_ok) = "ok"
        THEN ctor' = [ ctor EXCEPT
                         !.heap = Append(ctor.heap, FreshNode),
                         !.reverse = Len(ctor.heap) + 1,
                         !.wpath = path, !.wurl = url,
                         !.wpc = "run", !.wstep = 1 ]
        ELSE ctor' = [ ctor EXCEPT !.wpath = path, !.wurl = url ]
    /\ UNCHANGED <<rvars, sock>>

(* lines 62-65: reverse->path = safestrdup (path or "/") *)
CtorSetPath ==
    /\ AtStep("path")
    /\ ctor' = AfterStep(
          [ ctor EXCEPT
              !.heap[ctor.reverse].path =
                  NewRule(ctor.wpath, ctor.wurl, ctor.reverse).path,
              !.heap[ctor.reverse].set = @ \cup {"path"} ])
    /\ UNCHANGED <<rvars, sock>>

(* line 67: reverse->url = safestrdup (url) *)
CtorSetUrl ==
    /\ AtStep("url")
    /\ ctor' = AfterStep(
          [ ctor EXCEPT
              !.heap[ctor.reverse].url =
                  NewRule(ctor.wpath, ctor.wurl, ctor.reverse).url,
              !.heap[ctor.reverse].set = @ \cup {"url"} ])
    /\ UNCHANGED <<rvars, sock>>

(* line 69: reverse->next = config.reversepath_list *)
CtorSetNext ==
    /\ AtStep("next")
    /\ ctor' = AfterStep(
          [ ctor EXCEPT
              !.heap[ctor.reverse].next = ctor.head,
              !.heap[ctor.reverse].set = @ \cup {"next"} ])
    /\ UNCHANGED <<rvars, sock>>

(* line 70: config.reversepath_list = reverse.  This is the step at which
   the one-step AddRule changes the list *)
CtorSetHead ==
    /\ AtStep("head")
    /\ ctor' = AfterStep([ ctor EXCEPT !.head = ctor.reverse ])
    /\ reversepath_list' =
          LinkAtHead(reversepath_list,
                     NewRule(ctor.wpath, ctor.wurl, ctor.reverse))
    /\ UNCHANGED <<reverseonly, reversemagic, last, sock>>

(* lines 72-75: the LOG_INFO entry and the return *)
CtorAddReturn ==
    /\ ctor.wpc = "log"
    /\ ctor' = [ ctor EXCEPT !.wpc = "idle", !.reverse = NoRule ]
    /\ UNCHANGED <<rvars, sock>>

(* line 82: reverse = config.reversepath_list; seen keeps the list as it
   is at this read *)
CtorGetCall ==
    /\ ctor.rpc \in {"idle", "done"}
    /\ \E url \in GetArgs :
        ctor' = [ ctor EXCEPT
                    !.rpc = "test", !.rurl = url, !.cursor = ctor.head,
                    !.seen = Table(ctor.heap, ctor.head),
                    !.result = NoRule, !.fault = FALSE ]
    /\ UNCHANGED <<rvars, sock>>

(* lines 84-86: while (reverse) if (strstr (url, reverse->path) == url)
   return reverse; reading a path never assigned is a fault *)
CtorGetTest ==
    /\ ctor.rpc = "test"
    /\ ctor' =
          IF ctor.cursor = NoRule
          THEN [ ctor EXCEPT !.rpc = "done", !.result = NoRule ]
          ELSE IF "path" \notin ctor.heap[ctor.cursor].set
          THEN [ ctor EXCEPT !.rpc = "done", !.fault = TRUE ]
          ELSE IF PathMatches(ctor.rurl, ctor.heap[ctor.cursor].path)
          THEN [ ctor EXCEPT !.rpc = "done", !.result = ctor.cursor,
                             !.fault = "url" \notin ctor.heap[ctor.cursor].set ]
          ELSE [ ctor EXCEPT !.rpc = "next" ]
    /\ UNCHANGED <<rvars, sock>>

(* line 88: reverse = reverse->next; reading a next never assigned is a
   fault *)
CtorGetNext ==
    /\ ctor.rpc = "next"
    /\ ctor' =
          IF "next" \notin ctor.heap[ctor.cursor].set
          THEN [ ctor EXCEPT !.rpc = "done", !.fault = TRUE ]
          ELSE [ ctor EXCEPT !.rpc = "test",
                             !.cursor = ctor.heap[ctor.cursor].next ]
    /\ UNCHANGED <<rvars, sock>>

CtorInit ==
    /\ reversepath_list = << >>
    /\ reverseonly = FALSE
    /\ reversemagic = FALSE
    /\ last = NoCall
    /\ sock = SockIdle
    /\ ctor = CtorIdle

CtorNext ==
    \/ CtorAddCall
    \/ CtorSetPath
    \/ CtorSetUrl
    \/ CtorSetNext
    \/ CtorSetHead
    \/ CtorAddReturn
    \/ CtorGetCall
    \/ CtorGetTest
    \/ CtorGetNext

CtorSpec == CtorInit /\ [][CtorNext]_vars

(* every field of the object has been assigned *)
Complete(node) == node.set = {"path", "url", "next"}

(* C18: rules are fully constructed before they are visible.  At every
   step of reversepath_add every object reachable from
   config.reversepath_list has its path, url and next assigned, and the
   list reached from the head is the list of the completed insertions; a
   reversepath_get interleaved with it never reads an unassigned field and
   returns what it would return on the list as it was when it read the
   head, which is the list before or after the insertion. *)
C18_BuiltBeforeVisible ==
    /\ \A i \in 1..Len(Chain(ctor.heap, ctor.head, Len(ctor.heap) + 1)) :
          Complete(ctor.heap[Chain(ctor.heap, ctor.head, Len(ctor.heap) + 1)[i]])
    /\ Table(ctor.heap, ctor.head) = reversepath_list
    /\ ~ctor.fault
    /\ ctor.rpc # "idle" => IsSuffix(ctor.seen, reversepath_list)
    /\ ctor.rpc = "done"
       => LET found == reversepath_get(ctor.seen, ctor.rurl)
          IN  ctor.result =
                 IF found = NoRule THEN NoRule ELSE ctor.seen[found].birth

(* a reader that read the head before the second insertion was linked and
   finished after it: it returns the older rule although the newer one
   matches too *)
C18_Witness ==
    /\ ctor.rpc = "done"
    /\ Len(ctor.seen) = 1
    /\ Len(reversepath_list) = 2
    /\ ctor.result = 1
    /\ PathMatches(ctor.rurl, reversepath_list[1].path)

====
